---- MODULE Spec2Model ----
(***************************************************************************)
(* Model of correcao_curva.py: the Bezier boundary editor (ControlPoint,   *)
(* BezierQuad, ImageViewer) and the remap-field generator                  *)
(* gerar_mapas_remap.                                                      *)
(*                                                                         *)
(* Numbers.  The program computes in binary floating point; the model      *)
(* computes the same expressions in exact arithmetic:                      *)
(*   - a position (QPointF) is a pair of integers counted in units of      *)
(*     1/PosDen pixel;                                                     *)
(*   - a point produced by the curve evaluator or the mesh builder is a    *)
(*     record [num, den]: the pair num of integers over the common         *)
(*     denominator den (still in position units);                          *)
(*   - a scalar of gerar_mapas_remap is a fraction <<n, d>> in lowest      *)
(*     terms, d > 0, counted in pixels.                                    *)
(* Rounding of float64/float32 is therefore outside the model.             *)
(*                                                                         *)
(* Seja(e, F) is F(e) with e computed once: the helpers below use it for   *)
(* every value they read more than once.                                   *)
(***************************************************************************)
EXTENDS Integers, Sequences, FiniteSets, TLC

VARIABLES
    pc,             \* position of the program / of the call being run
    exit_status,    \* status given to sys.exit, -1 while running
    orig_W_cv,      \* ImageViewer.orig_W_cv
    orig_H_cv,      \* ImageViewer.orig_H_cv
    nova_W_pyqt,    \* ImageViewer.nova_W_pyqt
    nova_H_pyqt,    \* ImageViewer.nova_H_pyqt
    pontos,         \* BezierQuad.pontos: positions of the 12 ControlPoints
    pontos_lidos,   \* the positions read by the last ImageViewer.desenhar_malha
    stdout,         \* what the program has printed
    n_remap,        \* number of cv2.remap calls made
    n_imwrite,      \* number of output files written by cv2.imwrite
    n_eventos,      \* number of input events (drags, Enter keys) handled
    malha,          \* value returned by a gerar_malha_12x12 call
    bordas,         \* value returned by an amostrar_bordas call
    args,           \* arguments of the running gerar_mapas_remap call
    v_out,          \* gerar_mapas_remap: row the outer loop is at
    map_x,          \* gerar_mapas_remap: rows of map_x written so far
    map_y,          \* gerar_mapas_remap: rows of map_y written so far
    reads,          \* gerar_mapas_remap: mesh subscripts [j][i] evaluated
    escritas,       \* gerar_mapas_remap: entries [v, u] of the maps assigned
    erro            \* gerar_mapas_remap: exception raised, "" if none

vars == <<pc, exit_status, orig_W_cv, orig_H_cv, nova_W_pyqt, nova_H_pyqt,
          pontos, pontos_lidos, stdout, n_remap, n_imwrite, n_eventos,
          malha, bordas, args, v_out, map_x, map_y, reads, escritas, erro>>

\* the state of the editor session, but pc
editor_vars == <<exit_status, orig_W_cv, orig_H_cv, nova_W_pyqt, nova_H_pyqt,
                 pontos, pontos_lidos, stdout, n_remap, n_imwrite, n_eventos>>

\* the results of the sampling calls
amostra_vars == <<malha, bordas>>

\* the locals of a gerar_mapas_remap call
call_vars == <<args, v_out, map_x, map_y, reads, escritas, erro>>

----------------------------------------------------------------------------
(* Bounds of the exploration *)

\* input events handled in one editor session
MaxEventos == 3
\* mesh resolutions N_cols, N_rows given to gerar_mapas_remap: 0..MaxN
MaxN == 3
\* source image sides given to gerar_mapas_remap: -1..MaxDim
MaxDim == 3
\* displacement, in pixels per axis, of a point of a sampled loop
MaxDesvio == 1
\* side of the square image of the identity run
LadoIdentidade == 100

----------------------------------------------------------------------------
(* Exact arithmetic *)

\* F(x) for the value x of e
Seja(e, F(_)) == CHOOSE r \in {F(x) : x \in {y \in {e} : y = y}} : TRUE
Seja2(e1, e2, F(_, _)) ==
    CHOOSE r \in {F(x1, x2) : x1 \in {y \in {e1} : y = y},
                              x2 \in {y \in {e2} : y = y}} : TRUE

Abs(a) == IF a < 0 THEN -a ELSE a
Min(a, b) == IF a <= b THEN a ELSE b
Max(a, b) == IF a >= b THEN a ELSE b

RECURSIVE GCD(_, _)
GCD(a, b) == IF b = 0 THEN a ELSE Seja(a % b, LAMBDA r : GCD(b, r))

\* fraction n/d (d # 0) in lowest terms with a positive denominator
Frac(n, d) ==
    Seja(GCD(Abs(n), Abs(d)), LAMBDA g :
        IF d < 0 THEN <<-(n \div g), -(d \div g)>> ELSE <<n \div g, d \div g>>)

FInt(n) == <<n, 1>>
FNeg(a) == Seja(a, LAMBDA x : <<-x[1], x[2]>>)
FAdd(a, b) ==
    Seja2(a, b, LAMBDA x, y :
        Seja(GCD(x[2], y[2]), LAMBDA g :
            Frac(x[1] * (y[2] \div g) + y[1] * (x[2] \div g), x[2] * (y[2] \div g))))
FSub(a, b) == FAdd(a, FNeg(b))
FMul(a, b) ==
    Seja2(a, b, LAMBDA x, y :
        Seja2(GCD(Abs(x[1]), y[2]), GCD(Abs(y[1]), x[2]), LAMBDA g1, g2 :
            <<(x[1] \div g1) * (y[1] \div g2), (x[2] \div g2) * (y[2] \div g1)>>))
\* a / b for b # 0
FDiv(a, b) == Seja(b, LAMBDA y : FMul(a, Frac(y[2], y[1])))
FLess(a, b) == Seja2(a, b, LAMBDA x, y : x[1] * y[2] < y[1] * x[2])

\* Python int(x) of a float: truncation toward zero
int(a) ==
    Seja(a, LAMBDA x : IF x[1] >= 0 THEN x[1] \div x[2] ELSE -((-x[1]) \div x[2]))

\* np.clip(a, a_min, a_max) == minimum(a_max, maximum(a, a_min))
np_clip(a, a_min, a_max) == Min(a_max, Max(a, a_min))

\* np.linspace(0, 1, n)[k] == k/(n-1), kept as the pair <<k, n-1>>
np_linspace(n) == [k \in 0..(n - 1) |-> <<k, n - 1>>]

----------------------------------------------------------------------------
(* Points *)

\* position units per pixel: a common denominator of the seed coordinates
\* (nova/2, min/4, 1.3*min/4) and of thirds of a pixel
PosDen == 120

\* number of ControlPoints of a complete BezierQuad
NPontos == 12

PAdd(p, q) == Seja2(p, q, LAMBDA a, b : <<a[1] + b[1], a[2] + b[2]>>)
PSub(p, q) == Seja2(p, q, LAMBDA a, b : <<a[1] - b[1], a[2] - b[2]>>)
PMul(k, p) == Seja2(k, p, LAMBDA c, a : <<c * a[1], c * a[2]>>)

\* a position as a point over denominator 1
Pt(p) == [num |-> p, den |-> 1]

\* the same point over the smallest denominator
PNorm(a) ==
    Seja(a, LAMBDA x :
        Seja(GCD(GCD(Abs(x.num[1]), Abs(x.num[2])), x.den), LAMBDA g :
            [num |-> <<x.num[1] \div g, x.num[2] \div g>>, den |-> x.den \div g]))

\* two points are the same point of the plane
MesmoPonto(a, b) == PNorm(a) = PNorm(b)

----------------------------------------------------------------------------
(* CurveEvaluator: the two copies of the cubic evaluator *)

\* ImageViewer.ponto_bezier(p0, p1, p2, p3, t), t == k/d
ponto_bezier(p0, p1, p2, p3, t) ==
    Seja(t, LAMBDA tt :
        LET k == tt[1]
            d == tt[2]
            u == d - k
        IN  [num |-> PAdd(PAdd(PMul(u * u * u, p0), PMul(3 * u * u * k, p1)),
                          PAdd(PMul(3 * u * k * k, p2), PMul(k * k * k, p3))),
             den |-> d * d * d])

\* malha_ponto_bezier with p1 and p2 exchanged
malha_ponto_bezier_trocado(p0, p1, p2, p3, t) ==
    Seja(t, LAMBDA tt :
        LET k == tt[1]
            d == tt[2]
            u == d - k
        IN  [num |-> PAdd(PAdd(PMul(u * u * u, p0), PMul(3 * u * u * k, p2)),
                          PAdd(PMul(3 * u * k * k, p1), PMul(k * k * k, p3))),
             den |-> d * d * d])

\* the ponto_bezier nested in ImageViewer.gerar_malha_12x12
malha_ponto_bezier(p0, p1, p2, p3, t) ==
    Seja(t, LAMBDA tt :
        LET k == tt[1]
            d == tt[2]
            u == d - k
        IN  [num |-> PAdd(PAdd(PMul(u * u * u, p0), PMul(3 * u * u * k, p1)),
                          PAdd(PMul(3 * u * k * k, p2), PMul(k * k * k, p3))),
             den |-> d * d * d])

\* ImageViewer.amostrar_bordas: 12 samples of each of the 4 segments
amostrar_bordas(ps) ==
    Seja(ps, LAMBDA q :
        [s \in 0..3 |->
            [k \in 0..11 |->
                ponto_bezier(q[3 * s], q[3 * s + 1], q[3 * s + 2],
                             q[(3 * s + 3) % 12], np_linspace(12)[k])]])

----------------------------------------------------------------------------
(* MeshBuilder *)

\* amostrar_curva(curva, n) nested in gerar_malha_12x12
amostrar_curva(curva, n) ==
    Seja(curva, LAMBDA c :
        [k \in 0..(n - 1) |->
            malha_ponto_bezier(c[1], c[2], c[3], c[4], np_linspace(n)[k])])

\* tuple(reversed(curva))
reversed(curva) == Seja(curva, LAMBDA c : <<c[4], c[3], c[2], c[1]>>)

\* the four segments collected by the first loop of gerar_malha_12x12
curvas(ps) ==
    Seja(ps, LAMBDA q :
        [s \in 0..3 |-> <<q[3 * s], q[3 * s + 1], q[3 * s + 2], q[(3 * s + 3) % 12]>>])

\* pt_top * (1 - alpha) + pt_bot * alpha with alpha == j / 11.0
misturar(pt_top, pt_bot, j) ==
    Seja2(pt_top, pt_bot, LAMBDA a, b :
        [num |-> PAdd(PMul(11 - j, a.num), PMul(j, b.num)), den |-> 11 * a.den])

\* curva_topo taken from the right segment
curva_topo_direita(cs) == cs[1]

\* the curve gerar_malha_12x12 samples for row 0
curva_topo(cs) == cs[0]

\* curva_base without the reversal
curva_base_direta(cs) == cs[2]

\* the curve gerar_malha_12x12 samples for row 11
curva_base(cs) == reversed(cs[2])

\* ImageViewer.gerar_malha_12x12: malha[j][i], row j, column i
gerar_malha_12x12(ps) ==
    Seja(curvas(ps), LAMBDA cs :
        Seja2(amostrar_curva(curva_topo(cs), 12), amostrar_curva(curva_base(cs), 12),
              LAMBDA amostras_topo, amostras_base :
                [j \in 0..11 |->
                    [i \in 0..11 |-> misturar(amostras_topo[i], amostras_base[i], j)]]))

----------------------------------------------------------------------------
(* RemapFieldGenerator: gerar_mapas_remap *)

\* Python list subscript xs[k] on a list of length n: k if 0 <= k < n,
\* n + k if -n <= k < 0, IndexError (-1 here) otherwise
subscr(n, k) ==
    IF 0 <= k /\ k < n THEN k
    ELSE IF -n <= k /\ k < 0 THEN n + k
    ELSE -1

\* len(malha_float) and len(malha_float[j])
len(xs) == Cardinality(DOMAIN xs)

\* indice_float scaled by N_cols instead of N_cols - 1
indice_float_N(out, N, orig) == Frac(out * N, orig)

\* lines 43-44: i_float = u_out * (N_cols - 1) / orig_W_cv
indice_float(out, N, orig) == Frac(out * (N - 1), orig)

\* indice_clip with the cell range 1..N-1
indice_clip_deslocado(i_int, N) == np_clip(i_int, 1, N - 1)

\* lines 54-55: np.clip(i_int, 0, N_cols - 2)
indice_clip(i_int, N) == np_clip(i_int, 0, N - 2)

\* lines 43-55 for one axis: the mesh coordinate of an output pixel
celula(out, N, orig) ==
    Seja(indice_float(out, N, orig), LAMBDA f :
        Seja(int(f), LAMBDA i :
            [float |-> f, int |-> i, fr |-> FSub(f, FInt(i)), clip |-> indice_clip(i, N)]))

\* the subscripts malha_float[j][i] resolves to; ok is FALSE when they raise
\* IndexError
ler_malha(a, j, i) ==
    LET m == a.malha_float
        jj == subscr(len(m), j)
        ii == IF jj < 0 THEN -1 ELSE subscr(len(m[jj]), i)
    IN  [ok |-> ii >= 0, j |-> jj, i |-> ii]

\* lines 65-81: u_red * orig_W_cv / nova_W_pyqt (nova # 0)
reescalar(red, orig, nova) == FDiv(FMul(red, FInt(orig)), FInt(nova))

\* interpolar with the two weights exchanged
interpolar_trocado(p, q, f) == FAdd(FMul(p, f), FMul(q, FSub(FInt(1), f)))

\* lines 85-92: p * (1 - f) + q * f
interpolar(p, q, f) == FAdd(FMul(p, FSub(FInt(1), f)), FMul(q, f))

\* lines 64-81: the four corners of cell (j_int, i_int), rescaled to the
\* source image, for coordinate k (1 is x, 2 is y)
cantos(a, r00, r10, r01, r11, k) ==
    LET orig == IF k = 1 THEN a.orig_W_cv ELSE a.orig_H_cv
        nova == IF k = 1 THEN a.nova_W_pyqt ELSE a.nova_H_pyqt
        C(r) == reescalar(a.malha_float[r.j][r.i][k], orig, nova)
    IN  <<C(r00), C(r10), C(r01), C(r11)>>

\* lines 85-92 for one coordinate
bilinear(c, fx, fy) ==
    Seja(c, LAMBDA q :
        Seja2(interpolar(q[1], q[2], fx), interpolar(q[3], q[4], fx),
              LAMBDA top, bottom : interpolar(top, bottom, fy)))

\* lines 39-97 for one output pixel: the exception raised (if any), the
\* subscripts evaluated and the value stored
pixel(a, u, v) ==
    Seja2(celula(u, a.N_cols, a.orig_W_cv), celula(v, a.N_rows, a.orig_H_cv),
          LAMBDA ci, cj :
        LET i_int == ci.clip
            j_int == cj.clip
            r00 == ler_malha(a, j_int, i_int)
            r10 == ler_malha(a, j_int, i_int + 1)
            r01 == ler_malha(a, j_int + 1, i_int)
            r11 == ler_malha(a, j_int + 1, i_int + 1)
            div0 == a.nova_W_pyqt = 0 \/ a.nova_H_pyqt = 0
            e == IF ~r00.ok THEN "IndexError"
                 ELSE IF div0 THEN "ZeroDivisionError"
                 ELSE IF ~(r10.ok /\ r01.ok /\ r11.ok) THEN "IndexError"
                 ELSE ""
            lidos == IF ~r00.ok \/ div0 THEN {<<j_int, i_int>>}
                     ELSE IF ~r10.ok THEN {<<j_int, i_int>>, <<j_int, i_int + 1>>}
                     ELSE IF ~r01.ok THEN {<<j_int, i_int>>, <<j_int, i_int + 1>>,
                                           <<j_int + 1, i_int>>}
                     ELSE {<<j_int, i_int>>, <<j_int, i_int + 1>>,
                           <<j_int + 1, i_int>>, <<j_int + 1, i_int + 1>>}
        IN  IF e # "" THEN [erro |-> e, reads |-> lidos, x |-> FInt(0), y |-> FInt(0)]
            ELSE [erro |-> e, reads |-> lidos,
                  x |-> bilinear(cantos(a, r00, r10, r01, r11, 1), ci.fr, cj.fr),
                  y |-> bilinear(cantos(a, r00, r10, r01, r11, 2), ci.fr, cj.fr)])

\* the state of a call: both maps, the mesh subscripts evaluated so far, the
\* entries assigned so far and the exception raised ("" if none)
Chamada(mx, my, rs, es, e) ==
    [map_x |-> mx, map_y |-> my, reads |-> rs, escritas |-> es, erro |-> e]

\* lines 32-33: np.zeros((orig_H_cv, orig_W_cv)), which raises ValueError on
\* a negative dimension
entrar(a) ==
    IF a.orig_H_cv < 0 \/ a.orig_W_cv < 0
    THEN Chamada(<<>>, <<>>, {}, {}, "ValueError")
    ELSE Chamada([v \in 0..(a.orig_H_cv - 1) |-> [u \in 0..(a.orig_W_cv - 1) |-> FInt(0)]],
                 [v \in 0..(a.orig_H_cv - 1) |-> [u \in 0..(a.orig_W_cv - 1) |-> FInt(0)]],
                 {}, {}, "")

\* columns visited by the inner loop, line 38
colunas(a) == 0..(a.orig_W_cv - 1)

\* one iteration of the outer loop (lines 37-97): row v of both maps, up to
\* the first pixel that raises
passo_linha(a, st, v) ==
    Seja([u \in colunas(a) |-> pixel(a, u, v)], LAMBDA px :
        LET us == colunas(a)
            bad == {u \in us : px[u].erro # ""}
            stop == IF bad = {} THEN a.orig_W_cv
                    ELSE CHOOSE u \in bad : \A w \in bad : u <= w
            done == {u \in us : u < stop}
        IN  Chamada([st.map_x EXCEPT ![v] =
                        [u \in DOMAIN @ |-> IF u \in done THEN px[u].x ELSE @[u]]],
                    [st.map_y EXCEPT ![v] =
                        [u \in DOMAIN @ |-> IF u \in done THEN px[u].y ELSE @[u]]],
                    st.reads \cup UNION {px[u].reads : u \in {w \in us : w <= stop}},
                    st.escritas \cup {<<v, u>> : u \in done},
                    IF bad = {} THEN "" ELSE px[stop].erro))

\* rows visited by the outer loop, line 37
RECURSIVE laco_linhas(_, _, _)
laco_linhas(a, st, v) ==
    IF v >= a.orig_H_cv \/ st.erro # "" THEN st
    ELSE Seja(passo_linha(a, st, v), LAMBDA st1 : laco_linhas(a, st1, v + 1))

\* the whole call: its maps on return, or the exception it raises
gerar_mapas_remap(a) ==
    Seja(a, LAMBDA aa :
        Seja(entrar(aa), LAMBDA st :
            IF st.erro # "" THEN st ELSE laco_linhas(aa, st, 0)))

----------------------------------------------------------------------------
(* The editor: ControlPoint, BezierQuad, ImageViewer *)

\* the state a move handler works on: the positions of the points and the
\* positions the mesh on screen was built from
Quad(ps, lidos) == [pontos |-> ps, pontos_lidos |-> lidos]

\* ImageViewer.desenhar_malha on positions ps: item pontos_malha[i][j] is
\* placed at malha[j][i]
desenhar_malha(ps) ==
    Seja(gerar_malha_12x12(ps), LAMBDA m :
        [i \in 0..11 |-> [j \in 0..11 |-> m[j][i]]])

\* ImageViewer.pontos_malha: the item positions set by the last desenhar_malha
pontos_malha == desenhar_malha(pontos_lidos)

\* BezierQuad.updatePath, for a quad in the scene of the viewer: the path is
\* rebuilt and desenhar_malha reads the current pos() of the 12 points
updatePath(st) ==
    Seja(st, LAMBDA q :
        IF Cardinality(DOMAIN q.pontos) # NPontos THEN q
        ELSE [q EXCEPT !.pontos_lidos = q.pontos])

\* idx_vizinhos with the previous index wrapped modulo 11
idx_vizinhos_mod11(idx) == <<(idx + 1) % 12, (idx - 1) % 11>>

\* the two handles coupled to corner idx, lines 121-122
idx_vizinhos(idx) == <<(idx + 1) % 12, (idx - 1) % 12>>

RECURSIVE setPos(_, _, _)

\* QGraphicsItem.moveBy(dx, dy) == setPos(pos() + (dx, dy))
moveBy(st, idx, delta) ==
    Seja(st, LAMBDA q : setPos(q, idx, PAdd(q.pontos[idx], delta)))

\* ControlPoint.itemChange(ItemPositionChange, value): runs before the
\* position of point idx is changed
itemChange(st, idx, value) ==
    Seja(st, LAMBDA q :
        IF idx % 3 = 0 /\ Cardinality(DOMAIN q.pontos) = NPontos
        THEN Seja2(PSub(value, q.pontos[idx]), idx_vizinhos(idx), LAMBDA delta, viz :
                updatePath(moveBy(moveBy(q, viz[1], delta), viz[2], delta)))
        ELSE updatePath(q))

\* QGraphicsItem.setPos(value) of an item with ItemSendsGeometryChanges:
\* itemChange is notified, then the position becomes the value it returns
setPos(st, idx, value) ==
    Seja(itemChange(st, idx, value), LAMBDA q : [q EXCEPT !.pontos[idx] = value])

\* line 190: escala = min((largura_tela*4/5)/orig_W, (altura_tela*2/3)/orig_H, 1)
escala(tela, W, H) ==
    LET a == Frac(4 * tela[1], 5 * W)
        b == Frac(2 * tela[2], 3 * H)
        m == IF FLess(b, a) THEN b ELSE a
    IN  IF FLess(FInt(1), m) THEN FInt(1) ELSE m

\* lines 191-192: int(orig * escala)
nova(orig, e) == int(FMul(FInt(orig), e))

\* lines 199-216: the 12 seed positions, in position units
pontos_iniciais(nW, nH) ==
    LET cx == (PosDen * nW) \div 2
        cy == (PosDen * nH) \div 2
        offset == (PosDen * Min(nW, nH)) \div 4
        offset13 == (13 * PosDen * Min(nW, nH)) \div 40
        l == << <<cx - offset, cy - offset>>, <<cx, cy - offset13>>,
                <<cx, cy - offset13>>, <<cx + offset, cy - offset>>,
                <<cx + offset13, cy>>, <<cx + offset13, cy>>,
                <<cx + offset, cy + offset>>, <<cx, cy + offset13>>,
                <<cx, cy + offset13>>, <<cx - offset, cy + offset>>,
                <<cx - offset13, cy>>, <<cx - offset13, cy>> >>
    IN  [i \in 0..11 |-> l[i + 1]]

\* line 316: [[(pt.x(), pt.y()) for pt in linha] for linha in malha_pyqt],
\* each coordinate in pixels
malha_para_float(malha_pyqt) ==
    Seja(malha_pyqt, LAMBDA m :
        [j \in DOMAIN m |->
            [i \in DOMAIN m[j] |->
                <<Frac(m[j][i].num[1], m[j][i].den * PosDen),
                  Frac(m[j][i].num[2], m[j][i].den * PosDen)>>]])

\* the arguments processar_remapeamento passes, lines 313-323
argumentos(ps, nW, nH, oW, oH) ==
    [malha_float |-> malha_para_float(gerar_malha_12x12(ps)),
     nova_W_pyqt |-> nW, nova_H_pyqt |-> nH,
     orig_W_cv |-> oW, orig_H_cv |-> oH,
     N_cols |-> 12, N_rows |-> 12]

\* inputs of the editor runs: image sizes, screen sizes, drags (in pixels)
Imagens == {<<2, 2>>, <<1, 2>>}
Telas == {<<2, 2>>}
Deltas == {<<1, 2>>}

SemAmostra ==
    /\ malha = <<>>
    /\ bordas = <<>>

SemChamada ==
    /\ args = <<>>
    /\ v_out = 0
    /\ map_x = <<>>
    /\ map_y = <<>>
    /\ reads = {}
    /\ escritas = {}
    /\ erro = ""

SemEditor ==
    /\ exit_status = -1
    /\ orig_W_cv = 0
    /\ orig_H_cv = 0
    /\ nova_W_pyqt = 0
    /\ nova_H_pyqt = 0
    /\ pontos = <<>>
    /\ pontos_lidos = <<>>
    /\ stdout = <<>>
    /\ n_remap = 0
    /\ n_imwrite = 0
    /\ n_eventos = 0

\* the program is started
Init ==
    /\ pc = "main"
    /\ SemEditor
    /\ SemAmostra
    /\ SemChamada

\* lines 359-362: a wrong number of arguments
Uso ==
    /\ pc = "main"
    /\ \E argc \in {1, 3} :
        /\ stdout' = Append(stdout, "Uso")
        /\ pc' = "exited"
        /\ exit_status' = 1
    /\ UNCHANGED <<orig_W_cv, orig_H_cv, nova_W_pyqt, nova_H_pyqt, pontos,
                   pontos_lidos, n_remap, n_imwrite, n_eventos>>
    /\ UNCHANGED <<amostra_vars, call_vars>>

\* lines 171-174: QPixmap(image_path).isNull()
FalhaCarga ==
    /\ pc = "main"
    /\ stdout' = Append(stdout, "Erro: carregar")
    /\ pc' = "exited"
    /\ exit_status' = 1
    /\ UNCHANGED <<orig_W_cv, orig_H_cv, nova_W_pyqt, nova_H_pyqt, pontos,
                   pontos_lidos, n_remap, n_imwrite, n_eventos>>
    /\ UNCHANGED <<amostra_vars, call_vars>>

\* ImageViewer.__init__, lines 176-225, then viewer.show().  The setPos of
\* each ControlPoint.__init__ reaches updatePath with fewer than 12 points
\* and the quad outside any scene, so only line 225 draws the mesh.
Iniciar ==
    /\ pc = "main"
    /\ \E img \in Imagens, tela \in Telas :
        LET e == escala(tela, img[1], img[2])
            nW == nova(img[1], e)
            nH == nova(img[2], e)
            ps == pontos_iniciais(nW, nH)
        IN  /\ orig_W_cv' = img[1]
            /\ orig_H_cv' = img[2]
            /\ nova_W_pyqt' = nW
            /\ nova_H_pyqt' = nH
            /\ pontos' = ps
            /\ pontos_lidos' = ps
    /\ pc' = "editing"
    /\ UNCHANGED <<exit_status, stdout, n_remap, n_imwrite, n_eventos>>
    /\ UNCHANGED <<amostra_vars, call_vars>>

\* a drag of point idx by delta pixels: QGraphicsItem.setPos from the mouse
\* handler of a movable item
Mover(idx, delta) ==
    /\ pc = "editing"
    /\ n_eventos < MaxEventos
    /\ LET st == setPos(Quad(pontos, pontos_lidos), idx,
                        PAdd(pontos[idx], PMul(PosDen, delta)))
       IN  /\ pontos' = st.pontos
           /\ pontos_lidos' = st.pontos_lidos
    /\ n_eventos' = n_eventos + 1
    /\ UNCHANGED <<pc, exit_status, orig_W_cv, orig_H_cv, nova_W_pyqt,
                   nova_H_pyqt, stdout, n_remap, n_imwrite>>
    /\ UNCHANGED <<amostra_vars, call_vars>>

MoverPonto == \E idx \in 0..11, delta \in Deltas : Mover(idx, delta)

\* depois_dos_mapas without the return of line 329
depois_dos_mapas_sem_retorno(imread, imwrite) ==
    [stdout |-> IF imread = "None" THEN <<"Erro OpenCV">>
                ELSE IF imwrite = "raise" THEN <<"Erro ao salvar">>
                ELSE <<"Imagem corrigida salva">>,
     remap |-> 1,
     escrita |-> IF imwrite = "True" THEN 1 ELSE 0]

\* what processar_remapeamento does once the maps are built, lines 326-348;
\* imread and imwrite are the outcomes of cv2.imread and cv2.imwrite
depois_dos_mapas(imread, imwrite) ==
    IF imread = "None"
    THEN [stdout |-> <<"Erro OpenCV">>, remap |-> 0, escrita |-> 0]
    ELSE [stdout |-> IF imwrite = "raise" THEN <<"Erro ao salvar">>
                     ELSE <<"Imagem corrigida salva">>,
          remap |-> 1,
          escrita |-> IF imwrite = "True" THEN 1 ELSE 0]

\* the exception gerar_mapas_remap raises in processar_remapeamento, "" if none
erro_dos_mapas ==
    gerar_mapas_remap(argumentos(pontos, nova_W_pyqt, nova_H_pyqt,
                                 orig_W_cv, orig_H_cv)).erro

\* processar_remapeamento when gerar_mapas_remap returns, lines 326-348
Commit(imread, imwrite) ==
    /\ LET r == depois_dos_mapas(imread, imwrite)
       IN  /\ stdout' = Append(stdout, "Processando remapeamento...") \o r.stdout
           /\ n_remap' = n_remap + r.remap
           /\ n_imwrite' = n_imwrite + r.escrita
    /\ UNCHANGED <<pc, exit_status>>

\* processar_remapeamento when gerar_mapas_remap raises: the exception leaves
\* the event handler; PyQt5 then aborts the process (qFatal) or prints the
\* traceback and goes on, depending on its version
Excecao(fatal) ==
    /\ stdout' = stdout \o <<"Processando remapeamento...", "Traceback">>
    /\ pc' = IF fatal THEN "aborted" ELSE "editing"
    /\ exit_status' = IF fatal THEN 134 ELSE exit_status
    /\ UNCHANGED <<n_remap, n_imwrite>>

\* keyPressEvent(Enter) -> processar_remapeamento, lines 310-357
Processar ==
    /\ pc = "editing"
    /\ n_eventos < MaxEventos
    /\ \E e \in {erro_dos_mapas} :
        \/ /\ e = ""
           /\ \E imread \in {"None", "ok"}, imwrite \in {"True", "False", "raise"} :
                Commit(imread, imwrite)
        \/ /\ e # ""
           /\ \E fatal \in BOOLEAN : Excecao(fatal)
    /\ n_eventos' = n_eventos + 1
    /\ UNCHANGED <<orig_W_cv, orig_H_cv, nova_W_pyqt, nova_H_pyqt, pontos, pontos_lidos>>
    /\ UNCHANGED <<amostra_vars, call_vars>>

Next ==
    \/ Uso
    \/ FalhaCarga
    \/ Iniciar
    \/ MoverPonto
    \/ Processar

Spec == Init /\ [][Next]_vars

----------------------------------------------------------------------------
(* gerar_mapas_remap on its own, one row of the output per step *)

\* the mesh of a call: N_rows x N_cols points of a regular grid of display
\* pixels, sheared by k pixels per row
malha_teste(nr, nc, k) ==
    [j \in 0..(nr - 1) |-> [i \in 0..(nc - 1) |-> <<FInt(i + k * j), FInt(j)>>]]

\* display sizes and shears of the calls
Novas == {<<0, 1>>, <<1, 0>>, <<1, 1>>, <<2, 1>>}
Inclinacoes == {0, 1}

\* the calls: every mesh resolution up to MaxN, source sizes from -1 to MaxDim
ArgsRemap ==
    {[malha_float |-> malha_teste(nr, nc, k),
      nova_W_pyqt |-> nv[1], nova_H_pyqt |-> nv[2],
      orig_W_cv |-> oW, orig_H_cv |-> oH,
      N_cols |-> nc, N_rows |-> nr] :
        nr \in 0..MaxN, nc \in 0..MaxN, oW \in (-1)..MaxDim, oH \in (-1)..MaxDim,
        nv \in Novas, k \in Inclinacoes}

\* gerar_mapas_remap is called
InitRemap ==
    /\ pc = "chamada"
    /\ SemEditor
    /\ SemAmostra
    /\ args \in ArgsRemap
    /\ v_out = 0
    /\ map_x = <<>>
    /\ map_y = <<>>
    /\ reads = {}
    /\ escritas = {}
    /\ erro = ""

\* lines 32-33: the maps are allocated
Entrar ==
    /\ pc = "chamada"
    /\ \E st \in {entrar(args)} :
        /\ map_x' = st.map_x
        /\ map_y' = st.map_y
        /\ reads' = st.reads
        /\ escritas' = st.escritas
        /\ erro' = st.erro
        /\ pc' = IF st.erro # "" THEN "excecao" ELSE "laco"
    /\ v_out' = 0
    /\ UNCHANGED <<args, editor_vars, amostra_vars>>

\* lines 37-97: one iteration of the outer loop
Linha ==
    /\ pc = "laco"
    /\ v_out < args.orig_H_cv
    /\ \E st \in {passo_linha(args, Chamada(map_x, map_y, reads, escritas, erro), v_out)} :
        /\ map_x' = st.map_x
        /\ map_y' = st.map_y
        /\ reads' = st.reads
        /\ escritas' = st.escritas
        /\ erro' = st.erro
        /\ pc' = IF st.erro # "" THEN "excecao" ELSE "laco"
        /\ v_out' = IF st.erro # "" THEN v_out ELSE v_out + 1
    /\ UNCHANGED <<args, editor_vars, amostra_vars>>

\* line 99: return map_x, map_y
Retornar ==
    /\ pc = "laco"
    /\ v_out >= args.orig_H_cv
    /\ pc' = "retorno"
    /\ UNCHANGED <<args, v_out, map_x, map_y, reads, escritas, erro>>
    /\ UNCHANGED <<editor_vars, amostra_vars>>

NextRemap ==
    \/ Entrar
    \/ Linha
    \/ Retornar

SpecRemap == InitRemap /\ [][NextRemap]_vars

----------------------------------------------------------------------------
(* processar_remapeamento on the straight loop of an image *)

\* the loop whose corners are the corners of a W x H display and whose
\* handles lie at 1/3 and 2/3 of each straight edge, in position units
laco_reto(W, H) ==
    LET c == << <<0, 0>>, <<PosDen * W, 0>>, <<PosDen * W, PosDen * H>>, <<0, PosDen * H>> >>
    IN  [i \in 0..11 |->
            LET a == c[(i \div 3) + 1]
                b == c[(((i \div 3) + 1) % 4) + 1]
                k == i % 3
            IN  <<a[1] + (k * (b[1] - a[1])) \div 3, a[2] + (k * (b[2] - a[2])) \div 3>>]

\* Enter is pressed with the straight loop, the display as large as the source
InitIdentidade ==
    /\ pc = "processar"
    /\ exit_status = -1
    /\ orig_W_cv = LadoIdentidade
    /\ orig_H_cv = LadoIdentidade
    /\ nova_W_pyqt = LadoIdentidade
    /\ nova_H_pyqt = LadoIdentidade
    /\ pontos = laco_reto(LadoIdentidade, LadoIdentidade)
    /\ pontos_lidos = laco_reto(LadoIdentidade, LadoIdentidade)
    /\ stdout = <<>>
    /\ n_remap = 0
    /\ n_imwrite = 0
    /\ n_eventos = 0
    /\ SemAmostra
    /\ SemChamada

\* lines 313-323: the mesh is built and converted, gerar_mapas_remap is called
PrepararMapas ==
    /\ pc = "processar"
    /\ args' = argumentos(pontos, nova_W_pyqt, nova_H_pyqt, orig_W_cv, orig_H_cv)
    /\ pc' = "chamada"
    /\ stdout' = Append(stdout, "Processando remapeamento...")
    /\ UNCHANGED <<exit_status, orig_W_cv, orig_H_cv, nova_W_pyqt, nova_H_pyqt,
                   pontos, pontos_lidos, n_remap, n_imwrite, n_eventos>>
    /\ UNCHANGED <<v_out, map_x, map_y, reads, escritas, erro, amostra_vars>>

NextIdentidade ==
    \/ PrepararMapas
    \/ Entrar
    \/ Linha
    \/ Retornar

SpecIdentidade == InitIdentidade /\ [][NextIdentidade]_vars

----------------------------------------------------------------------------
(* CurveEvaluator and MeshBuilder on their own *)

\* displacements of a point, in pixels
Desvios == {<<dx, dy>> : dx \in (-MaxDesvio)..MaxDesvio, dy \in (-MaxDesvio)..MaxDesvio}

\* display sizes of the seed loops
Sementes == {<<2, 2>>, <<1, 2>>}

\* the loops: a seed loop with one point displaced
Lacos ==
    {[pontos_iniciais(sz[1], sz[2]) EXCEPT ![idx] = PAdd(@, PMul(PosDen, d))] :
        sz \in Sementes, idx \in 0..11, d \in Desvios}

InitMalha ==
    /\ pc = "amostrar"
    /\ exit_status = -1
    /\ orig_W_cv = 0
    /\ orig_H_cv = 0
    /\ nova_W_pyqt = 0
    /\ nova_H_pyqt = 0
    /\ pontos \in Lacos
    /\ pontos_lidos = <<>>
    /\ stdout = <<>>
    /\ n_remap = 0
    /\ n_imwrite = 0
    /\ n_eventos = 0
    /\ SemAmostra
    /\ SemChamada

\* gerar_malha_12x12 is applied to the loop
GerarMalha ==
    /\ pc = "amostrar"
    /\ malha = <<>>
    /\ malha' = gerar_malha_12x12(pontos)
    /\ UNCHANGED <<pc, bordas, editor_vars, call_vars>>

\* amostrar_bordas is applied to the loop
AmostrarBordas ==
    /\ pc = "amostrar"
    /\ bordas = <<>>
    /\ bordas' = amostrar_bordas(pontos)
    /\ UNCHANGED <<pc, malha, editor_vars, call_vars>>

NextMalha ==
    \/ GerarMalha
    \/ AmostrarBordas

SpecMalha == InitMalha /\ [][NextMalha]_vars

----------------------------------------------------------------------------
(* Properties of the editor (Spec) *)

\* the seed positions of the session
sementes == pontos_iniciais(nova_W_pyqt, nova_H_pyqt)

\* the points a move of point idx displaces, by explicit modular arithmetic
Movidos(idx) ==
    IF idx % 3 = 0 THEN {idx, (idx + 1) % 12, (idx + 11) % 12} ELSE {idx}

\* the loop ps with the points of the set S displaced by delta pixels
Deslocado(ps, S, delta) ==
    [i \in 0..11 |-> IF i \in S THEN <<ps[i][1] + PosDen * delta[1], ps[i][2] + PosDen * delta[2]>>
                     ELSE ps[i]]

\* C1: in every session, a move of corner c by (dx,dy) displaces exactly
\* points c, (c+1) mod 12 and (c-1) mod 12 by (dx,dy) and leaves the other 9
\* where they were; a move of a handle displaces that handle only.
C1_AcoplamentoQuinaHandle ==
    [][\A idx \in 0..11, delta \in Deltas :
        Mover(idx, delta) => pontos' = Deslocado(pontos, Movidos(idx), delta)]_vars

\* C1 witness: after a move of corner 0 and a move of handle 11, points 11, 0
\* and 1 are displaced once by the corner and point 11 once more
C1_Testemunha ==
    /\ pc = "editing"
    /\ n_eventos = 2
    /\ \E d \in Deltas :
        pontos = Deslocado(Deslocado(sementes, {11, 0, 1}, d), {11}, d)

\* C2: after every completed move the mesh on screen is the mesh of the
\* current positions of the 12 points.
C2_MalhaAtual ==
    pc = "editing" => pontos_malha = desenhar_malha(pontos)

\* C7: a commit whose cv2.imread fails resamples nothing, writes no file,
\* leaves the loop where it was and leaves the editor accepting events; and
\* the program exits only with a non-zero status and without any loop.
C7_FalhaDeCarga ==
    [][/\ stdout' = stdout \o <<"Processando remapeamento...", "Erro OpenCV">>
          => /\ n_remap' = n_remap
             /\ n_imwrite' = n_imwrite
             /\ pontos' = pontos
             /\ pontos_lidos' = pontos_lidos
             /\ pc' = "editing"
             /\ exit_status' = -1
       /\ pc' = "exited"
          => /\ exit_status' # 0
             /\ exit_status' # -1
             /\ pontos' = <<>>
             /\ pontos_lidos' = <<>>
             /\ n_eventos' = 0]_vars

\* C7 witness: a commit failed at cv2.imread, then a point was moved and a
\* second commit wrote its file
C7_Testemunha ==
    /\ pc = "editing"
    /\ Len(stdout) = 4
    /\ stdout[2] = "Erro OpenCV"
    /\ stdout[4] = "Imagem corrigida salva"
    /\ pontos # sementes
    /\ n_remap = 1
    /\ n_imwrite = 1

----------------------------------------------------------------------------
(* Properties of CurveEvaluator and MeshBuilder (SpecMalha) *)

\* segment s of the loop in the state
segmento(s) == curvas(pontos)[s]

\* ImageViewer.ponto_bezier on a segment
avaliar(seg, t) == ponto_bezier(seg[1], seg[2], seg[3], seg[4], t)

\* the nested ponto_bezier on a segment
avaliar_malha(seg, t) == malha_ponto_bezier(seg[1], seg[2], seg[3], seg[4], t)

\* coordinate c of a point, as a fraction
Coord(pt, c) == Frac(pt.num[c], pt.den)

\* (1 - alpha) * a + alpha * b on fractions
lerp(a, b, alpha) == FAdd(FMul(FSub(FInt(1), alpha), a), FMul(alpha, b))

\* parameters at which the two evaluators are compared
Ts == {<<0, 1>>, <<1, 1>>, <<1, 2>>, <<1, 3>>, <<3, 4>>} \cup {<<k, 11>> : k \in 0..11}

\* C3: row 0 of the mesh is the top segment at t = i/11, row 11 is the
\* bottom segment (points 6,7,8,9) at t = (11-i)/11, and the corners of the
\* mesh are points 0, 3, 6 and 9.
C3_LinhasDaMalha ==
    malha # <<>> =>
        /\ \A i \in 0..11 :
            /\ MesmoPonto(malha[0][i], avaliar(segmento(0), <<i, 11>>))
            /\ MesmoPonto(malha[11][i], avaliar(segmento(2), <<11 - i, 11>>))
        /\ MesmoPonto(malha[0][0], Pt(pontos[0]))
        /\ MesmoPonto(malha[0][11], Pt(pontos[3]))
        /\ MesmoPonto(malha[11][11], Pt(pontos[6]))
        /\ MesmoPonto(malha[11][0], Pt(pontos[9]))

\* C3 witness: a mesh of a loop whose bottom handles differ, so that the
\* bottom curve is not its own mirror image
C3_Testemunha ==
    /\ malha # <<>>
    /\ pontos[7] # pontos[8]
    /\ ~MesmoPonto(malha[11][1], malha[11][10])
    /\ ~MesmoPonto(malha[11][0], malha[11][11])

\* displacements of a lateral handle, in pixels
DesviosLaterais == {<<1, 2>>, <<-3, 1>>}

\* C6: the mesh is the same for every loop that differs only in handles 4,
\* 5, 10, 11, and every mesh point is (1 - j/11) * top sample i + (j/11) *
\* bottom sample i.
C6_SoTopoEBase ==
    malha # <<>> =>
        /\ \A idx \in {4, 5, 10, 11}, d \in DesviosLaterais :
            gerar_malha_12x12([pontos EXCEPT ![idx] = PAdd(@, PMul(PosDen, d))]) = malha
        /\ \A j \in 0..11, i \in 0..11, c \in 1..2 :
            Coord(malha[j][i], c) =
                lerp(Coord(avaliar(segmento(0), <<i, 11>>), c),
                     Coord(avaliar(reversed(segmento(2)), <<i, 11>>), c),
                     Frac(j, 11))

\* C6 witness: a mesh of a loop whose right handles were pulled apart
C6_Testemunha ==
    /\ malha # <<>>
    /\ pontos[4] # pontos[5]
    /\ ~MesmoPonto(malha[5][3], malha[6][3])

\* C8: on every segment both evaluators return the first control point at
\* t = 0 and the last at t = 1, and return the same point at every parameter;
\* so do the samples amostrar_bordas and gerar_malha_12x12 took with them.
C8_ExtremosExatos ==
    /\ \A s \in 0..3 :
        /\ MesmoPonto(avaliar(segmento(s), <<0, 1>>), Pt(pontos[3 * s]))
        /\ MesmoPonto(avaliar(segmento(s), <<1, 1>>), Pt(pontos[(3 * s + 3) % 12]))
        /\ MesmoPonto(avaliar_malha(segmento(s), <<0, 1>>), Pt(pontos[3 * s]))
        /\ MesmoPonto(avaliar_malha(segmento(s), <<1, 1>>), Pt(pontos[(3 * s + 3) % 12]))
        /\ \A t \in Ts : avaliar(segmento(s), t) = avaliar_malha(segmento(s), t)
        /\ bordas # <<>> =>
            /\ MesmoPonto(bordas[s][0], Pt(pontos[3 * s]))
            /\ MesmoPonto(bordas[s][11], Pt(pontos[(3 * s + 3) % 12]))
    /\ (bordas # <<>> /\ malha # <<>>) => \A i \in 0..11 : MesmoPonto(bordas[0][i], malha[0][i])

\* C8 witness: both samplings of a loop whose top handles differ
C8_Testemunha ==
    /\ bordas # <<>>
    /\ malha # <<>>
    /\ pontos[1] # pontos[2]
    /\ ~MesmoPonto(bordas[0][0], bordas[0][11])

----------------------------------------------------------------------------
(* Properties of gerar_mapas_remap (SpecRemap, SpecIdentidade) *)

\* a call is in progress
EmChamada == args # <<>>

\* mesh resolution at least 2 and positive source dimensions
ConfigValida ==
    /\ EmChamada
    /\ args.N_cols >= 2
    /\ args.N_rows >= 2
    /\ args.orig_W_cv > 0
    /\ args.orig_H_cv > 0

\* positive display dimensions
DisplayPositivo ==
    /\ args.nova_W_pyqt > 0
    /\ args.nova_H_pyqt > 0

\* every mesh subscript evaluated so far lies in 0..N-1
LeiturasNoIntervalo ==
    \A r \in reads :
        /\ 0 <= r[1] /\ r[1] <= args.N_rows - 1
        /\ 0 <= r[2] /\ r[2] <= args.N_cols - 1

\* the entries of an H x W field
Entradas == {<<v, u>> : v \in 0..(args.orig_H_cv - 1), u \in 0..(args.orig_W_cv - 1)}

\* C4: with N_cols < 2, N_rows < 2 or a non-positive source or display
\* dimension, gerar_mapas_remap never divides by zero, never reads a mesh
\* entry at a subscript outside 0..N-1 and never returns a field.
C4_RejeitaConfigInvalida ==
    (EmChamada /\ ~(ConfigValida /\ DisplayPositivo)) =>
        /\ erro # "ZeroDivisionError"
        /\ LeiturasNoIntervalo
        /\ pc # "retorno"

\* C9: with N >= 2 and positive source dimensions, every pixel's cell
\* indices lie in 0..N-2, every mesh subscript evaluated lies in 0..N-1, no
\* IndexError is raised, and the field returned has orig_H_cv rows of
\* orig_W_cv columns, every entry assigned; with positive display dimensions
\* the call raises nothing.
C9_IndicesNoIntervalo ==
    ConfigValida =>
        /\ \A u \in 0..(args.orig_W_cv - 1) :
            celula(u, args.N_cols, args.orig_W_cv).clip \in 0..(args.N_cols - 2)
        /\ \A v \in 0..(args.orig_H_cv - 1) :
            celula(v, args.N_rows, args.orig_H_cv).clip \in 0..(args.N_rows - 2)
        /\ LeiturasNoIntervalo
        /\ erro # "IndexError"
        /\ erro # "ValueError"
        /\ DisplayPositivo => erro = "" /\ pc # "excecao"
        /\ pc = "retorno" =>
            /\ DOMAIN map_x = 0..(args.orig_H_cv - 1)
            /\ DOMAIN map_y = 0..(args.orig_H_cv - 1)
            /\ \A v \in DOMAIN map_x :
                /\ DOMAIN map_x[v] = 0..(args.orig_W_cv - 1)
                /\ DOMAIN map_y[v] = 0..(args.orig_W_cv - 1)
            /\ escritas = Entradas

\* C9 witness: a call with a 2 x 2 mesh has returned a field of several
\* pixels, having read the four corners of its single cell
C9_Testemunha ==
    /\ pc = "retorno"
    /\ args.N_cols = 2
    /\ args.N_rows = 2
    /\ args.orig_W_cv >= 2
    /\ args.orig_H_cv >= 2
    /\ reads = {<<0, 0>>, <<0, 1>>, <<1, 0>>, <<1, 1>>}
    /\ escritas = Entradas

\* the fractions of one axis computed from the clamped index agree with
\* the fractions the code computes, and lie in [0, 1)
FracaoCoerente(out, N, orig) ==
    LET c == celula(out, N, orig)
    IN  /\ c.clip = c.int
        /\ c.fr = FSub(c.float, FInt(c.clip))
        /\ ~FLess(c.fr, FInt(0))
        /\ FLess(c.fr, FInt(1))

\* the corners of the cell of pixel (u, v) for coordinate k
cantos_do_pixel(u, v, k) ==
    LET i0 == celula(u, args.N_cols, args.orig_W_cv).clip
        j0 == celula(v, args.N_rows, args.orig_H_cv).clip
    IN  cantos(args, ler_malha(args, j0, i0), ler_malha(args, j0, i0 + 1),
               ler_malha(args, j0 + 1, i0), ler_malha(args, j0 + 1, i0 + 1), k)

\* x lies between the smallest and the largest of the four values of c
Entre(x, c) ==
    /\ \E i \in 1..4 : ~FLess(x, c[i])
    /\ \E i \in 1..4 : ~FLess(c[i], x)

\* C10: with N >= 2 and positive source dimensions, for every pixel the clamp
\* leaves the integer part unchanged, fx = i_float - i0 and fy = j_float - j0
\* with 0 <= fx, fy < 1, and every entry assigned lies between the extreme
\* rescaled corners of its mesh cell.
C10_FracoesSemClamp ==
    ConfigValida =>
        /\ \A u \in 0..(args.orig_W_cv - 1) : FracaoCoerente(u, args.N_cols, args.orig_W_cv)
        /\ \A v \in 0..(args.orig_H_cv - 1) : FracaoCoerente(v, args.N_rows, args.orig_H_cv)
        /\ \A e \in escritas :
            /\ Entre(map_x[e[1]][e[2]], cantos_do_pixel(e[2], e[1], 1))
            /\ Entre(map_y[e[1]][e[2]], cantos_do_pixel(e[2], e[1], 2))

\* C10 witness: a returned field with a pixel strictly inside its cell on
\* both axes
C10_Testemunha ==
    /\ pc = "retorno"
    /\ ConfigValida
    /\ escritas = Entradas
    /\ \E e \in escritas :
        /\ celula(e[2], args.N_cols, args.orig_W_cv).fr[1] # 0
        /\ celula(e[1], args.N_rows, args.orig_H_cv).fr[1] # 0

\* C5: on the straight loop of a display as large as the source, every
\* entry assigned is the identity, map_x[v][u] = u and map_y[v][u] = v, the
\* call raises nothing and returns with every entry assigned.
C5_Identidade ==
    /\ \A e \in escritas :
        /\ map_x[e[1]][e[2]] = FInt(e[2])
        /\ map_y[e[1]][e[2]] = FInt(e[1])
    /\ erro = ""
    /\ pc # "excecao"
    /\ pc = "retorno" => escritas = Entradas

\* C5 witness: the call has returned the whole field
C5_Testemunha ==
    /\ pc = "retorno"
    /\ args.N_cols = 12
    /\ Cardinality(escritas) = LadoIdentidade * LadoIdentidade
    /\ map_x[LadoIdentidade - 1][LadoIdentidade - 1] = FInt(LadoIdentidade - 1)

====
